---- MODULE Spec2Model ----
(***************************************************************************)
(* A model of googlemapsat88mph.py: version discovery, the zoom level of    *)
(* GeoPoint.compute_zoom_level, the version crawl of main(), the tile      *)
(* life cycle of MapTile.load/download, the pooled grid download of        *)
(* MapTileGrid.download and the corner probe of                            *)
(* MapTileGrid.corners_identical_to.                                       *)
(*                                                                         *)
(* Spec is the crawl; SpecGrid is one download of a grid large enough for  *)
(* the retry; SpecDiscovery is main() up to the loop; SpecZoom is the call *)
(* of compute_zoom_level; SpecFromGeorect is the call of                   *)
(* MapTileGrid.from_georect on every pair of corner tiles; SpecMosaic is   *)
(* the crawl with and without output dimensions.                           *)
(*                                                                         *)
(* A raster is abstracted to a value of Rasters (two rasters are equal in  *)
(* every pixel and channel iff they are the same value); "bad" is a raster *)
(* that is not a 256x256 RGB image and "none" is Python's None.            *)
(***************************************************************************)
EXTENDS Integers, Sequences, FiniteSets, TLC

\* ------------------------------------------------------------------ bounds

\* The highest version the crawl may start from (versions run down to 0).
MaxVersion == 2

\* The (width, height) pairs of the grids from_georect may produce here.
GridShapes == {<<1, 1>>, <<3, 1>>, <<2, 2>>}

\* The (width, height) of the one grid of SpecGrid: the smallest grid on which
\* MapTileGrid.download retries (0 < missing < 0.2 * tiles needs six tiles).
RetryGridShape == <<3, 2>>

\* Resolutions are whole numbers of a unit small enough for the resolution at
\* the finest zoom to be whole (halving a float is exact, so nothing is lost):
\* the resolutions at the finest zoom that are tried ...
FinestResolutions == {2, 3}

\* ... and how far above the resolution at zoom 0 the constraints tried go,
\* in doublings.
MaxDoublings == 2

\* The grid of the crawls that follow what is done with the stitched images.
MosaicGridShape == <<1, 1>>

\* The highest tile coordinate a corner of the rectangle projects to.
MaxTileCoordinate == 2

\* The most 200 responses without a well-formed raster (undecodable, or not a
\* 256x256 RGB image) the tile server sends in one run.
MaxMalformed == 1

\* The distinct well-formed rasters the tile server may return.
Rasters == {"a", "b"}

\* --------------------------------------------------------------- constants

\* class MapTileStatus
PENDING == 1
DOWNLOADING == 2
DOWNLOADED == 3
ERROR == 4

\* previous_grid = None, and "no grid yet"
NoGrid == -1

\* max_workers of the corner probe's ThreadPoolExecutor
CornerPoolWorkers == 8

\* the choices of --format
OutputFormats == {"jpegs", "gif", "both"}

\* the choices of --direction
Directions == {"downward", "northward", "eastward", "southward", "westward"}

\* the finest zoom compute_zoom_level scans: range(0, 23+1)
MaxZoom == 23

\* the fallback versions
DEFAULT_VERSION == 908
DEFAULT_OBLIQUE_VERSION == 131

VARIABLES
    pc,                \* the position of main()
    current_version,   \* the version the crawl starts from
    version,           \* the loop variable of `for version in range(...)`
    output_format,     \* args.output_format
    direction,         \* args.direction
    args_version,      \* args.current_version: <<>> if --version is not given, else <<N>>
    discovery,         \* what the request for the Google Maps page ended in
    meters_per_pixel_at_zoom_0, \* compute_zoom_level's local of that name
    max_meters_per_pixel,       \* the constraint compute_zoom_level is called with
    zoom,              \* what compute_zoom_level ended in
    width, height,     \* the grid's width and height (the same for every version)
    maptiles,          \* the live MapTileGrid objects: grid id -> (tile -> MapTile)
    grid,              \* main's `grid` (a grid id, the version it was built for)
    previous_grid,     \* main's `previous_grid` (a grid id or NoGrid)
    tasks,             \* the tiles submitted to the running pool, in submission order
    queue,             \* indices of tasks no worker has taken yet
    workers,           \* running tasks: index -> the line the worker is at
    max_workers,       \* the running pool's max_workers
    prog,              \* the progress indicator thread of MapTileGrid.download
    downloaded_images, \* main's `downloaded_images`, as the images' versions
    stills,            \* the versions of the JPEGs saved so far
    gif,               \* the frames (versions) of the GIF written, if any
    gif_written,       \* whether a GIF was written
    error,             \* the MissingTilesError being handled: <<missing, total, where>>
    requested,         \* history: version -> tiles a request was sent for
    downloads,         \* history: the versions grid.download() was called for
    verdict,           \* history: version -> what corners_identical_to returned
    malformed,         \* history: the number of malformed responses received
    completed,         \* history: the versions grid.download() returned normally for
    retried,           \* history: the tiles the grid's last serial retry sent requests
                       \* for, in order
    rect_tiles,        \* the tiles the rectangle's sw and ne corners project to
    built_grid,        \* the maptiles of the grid from_georect returned, when its
                       \* tiles' coordinates are followed
    image_dimensions,  \* whether an output width or height was given (line 898)
    mosaics            \* history: per version, what was done with its image, in order

vars == <<pc, current_version, version, output_format, direction, args_version,
                   discovery, meters_per_pixel_at_zoom_0,
                   max_meters_per_pixel, zoom, width, height, maptiles,
          grid, previous_grid, tasks, queue, workers, max_workers, prog,
          downloaded_images, stills, gif, gif_written, error, requested,
          downloads, verdict, malformed, completed, retried, rect_tiles,
          built_grid, image_dimensions, mosaics>>

Versions == 0..MaxVersion

\* -------------------------------------------------------- version discovery

\* ViewDirection.is_oblique
IsOblique(dir) == dir # "downward"

\* current_version before discovery: the default for the view direction, or
\* the --version option if it is given.
FallbackVersion(dir, given) ==
    IF given # <<>> THEN given[1]
    ELSE IF IsOblique(dir) THEN DEFAULT_OBLIQUE_VERSION ELSE DEFAULT_VERSION

\* What the request for the Google Maps page can end in: a RequestException, or
\* a page, of which only what the two patterns find in it matters: <<>> if a
\* pattern does not match, else <<N>>, N the number the pattern captures (the
\* first pattern is the one for the downward view, the second the oblique one).
DiscoveryOutcomes ==
    {[status |-> "request_failed", downward |-> <<>>, oblique |-> <<>>]}
    \cup {[status |-> "fetched", downward |-> d, oblique |-> o] :
             d \in {<<>>} \cup {<<v>> : v \in Versions},
             o \in {<<>>} \cup {<<v>> : v \in Versions}}

\* Nothing requested yet.
NotDiscovered == [status |-> "pending", downward |-> <<>>, oblique |-> <<>>]

\* `match` after the two re.search calls: the second replaces the first when
\* the direction is oblique.
Match(outcome, dir) == IF IsOblique(dir) THEN outcome.oblique ELSE outcome.downward

\* Discover without the `except requests.RequestException`: a failed request
\* ends main().
DiscoverUnguarded ==
    /\ pc = "discover"
    /\ \E outcome \in DiscoveryOutcomes :
          /\ discovery' = outcome
          /\ IF outcome.status = "request_failed"
             THEN /\ pc' = "crashed"
                  /\ UNCHANGED <<current_version, version>>
             ELSE /\ current_version' = IF Match(outcome, direction) # <<>>
                                        THEN Match(outcome, direction)[1]
                                        ELSE current_version
                  /\ version' = current_version'
                  /\ pc' = "compute_zoom"
    /\ UNCHANGED <<output_format, direction, args_version,
                   meters_per_pixel_at_zoom_0, max_meters_per_pixel, zoom,
                   width, height, maptiles, grid, previous_grid, tasks, queue, workers,
                   max_workers, prog, downloaded_images, stills, gif,
                   gif_written, error, requested, downloads, verdict, malformed,
                   completed, retried,
                   rect_tiles, image_dimensions, mosaics, built_grid>>

\* The page is requested and searched: current_version becomes the number
\* found, or stays what it is if the request fails or nothing is found; the
\* loop then starts from it.
Discover ==
    /\ pc = "discover"
    /\ \E outcome \in DiscoveryOutcomes :
          /\ discovery' = outcome
          /\ current_version' = IF outcome.status = "fetched"
                                   /\ Match(outcome, direction) # <<>>
                                THEN Match(outcome, direction)[1]
                                ELSE current_version
    /\ version' = current_version'
    /\ pc' = "compute_zoom"
    /\ UNCHANGED <<output_format, direction, args_version,
                   meters_per_pixel_at_zoom_0, max_meters_per_pixel, zoom,
                   width, height, maptiles, grid, previous_grid, tasks, queue, workers,
                   max_workers, prog, downloaded_images, stills, gif,
                   gif_written, error, requested, downloads, verdict, malformed,
                   completed, retried,
                   rect_tiles, image_dimensions, mosaics, built_grid>>

\* -------------------------------------------------------------- zoom level

\* meters_per_pixel = meters_per_pixel_at_zoom_0 / (2 ** zoom)
MetersPerPixel(at_zoom_0, z) == at_zoom_0 \div (2 ^ z)

\* The values meters_per_pixel_at_zoom_0 takes here.
ZoomZeroResolutions == {r * (2 ^ MaxZoom) : r \in FinestResolutions}

\* The constraints tried: every resolution of every zoom, the values right
\* below and above it, and the same up to MaxDoublings doublings beyond zoom 0.
ZoomConstraints ==
    {m \in {r * (2 ^ j) + d : r \in FinestResolutions,
                             j \in 0..(MaxZoom + MaxDoublings),
                             d \in {-1, 0, 1}} : m > 0}

\* What compute_zoom_level ends in: a zoom, or the RuntimeError.
ZoomReturned(z) == [raised |-> FALSE, zoom |-> z]
ZoomRaised == [raised |-> TRUE, zoom |-> 0]

\* compute_zoom_level has not been called yet.
NoZoom == [raised |-> FALSE, zoom |-> 0 - 1]

\* `for zoom in reversed(range(0, 23+1))` from zoom z on: the first zoom whose
\* resolution exceeds the constraint returns zoom + 1; the loop's else raises.
RECURSIVE ZoomScan(_, _, _)
ZoomScan(at_zoom_0, constraint, z) ==
    IF z < 0 THEN ZoomRaised
    ELSE IF MetersPerPixel(at_zoom_0, z) > constraint THEN ZoomReturned(z + 1)
    ELSE ZoomScan(at_zoom_0, constraint, z - 1)

\* GeoPoint.compute_zoom_level
compute_zoom_level(at_zoom_0, constraint) == ZoomScan(at_zoom_0, constraint, MaxZoom)

\* main() calls compute_zoom_level; its RuntimeError ends main().
ComputeZoom ==
    /\ pc = "compute_zoom"
    /\ zoom' = compute_zoom_level(meters_per_pixel_at_zoom_0, max_meters_per_pixel)
    /\ pc' = IF zoom'.raised THEN "zoom_error" ELSE "loop"
    /\ UNCHANGED <<current_version, version, output_format, direction,
                   args_version, discovery, meters_per_pixel_at_zoom_0,
                   max_meters_per_pixel, width, height, maptiles, grid,
                   previous_grid, tasks, queue, workers, max_workers, prog,
                   downloaded_images, stills, gif, gif_written, error,
                   requested, downloads, verdict, malformed, completed, retried,
                   rect_tiles, image_dimensions, mosaics, built_grid>>

\* ------------------------------------------------------------ grid geometry

\* MapTileGrid.flat(), as a set: the tiles of a grid, as (x, y) indices.
Flat == {<<x, y>> : x \in 0..(width - 1), y \in 0..(height - 1)}

\* MapTileGrid.flat(), as the list it is: column by column.
FlatSeq == [i \in 1..(width * height) |-> <<(i - 1) \div height, (i - 1) % height>>]

\* MapTileGrid.at without the wraparound.
AtNoWrap(x, y) == <<x, y>>

\* MapTileGrid.at: negative indices wrap around.
At(x, y) == <<IF x < 0 THEN x + width ELSE x, IF y < 0 THEN y + height ELSE y>>

\* MapTileGrid.corners: [self.at(x, y) for x in [0, -1] for y in [0, -1]]
Corners == <<At(0, 0), At(0, -1), At(-1, 0), At(-1, -1)>>

\* MapTile.__init__: a fresh tile
NewTile == [status |-> PENDING, image |-> "none"]

\* MapTileGrid.from_georect: a grid of fresh tiles
NewGrid == [t \in Flat |-> NewTile]

\* MapTile.__init__, with the fields that tell where the tile is.
MapTile(v, z, dir, x, y) ==
    [version |-> v, zoom |-> z, direction |-> dir, x |-> x, y |-> y,
     status |-> PENDING, image |-> "none"]

\* MapTileGrid.from_georect without the swaps of the corners' coordinates.
from_georect_unsorted(bottomleft, topright, z, dir, v) ==
    [i \in 1..(topright[1] - bottomleft[1] + 1) |->
        [j \in 1..(bottomleft[2] - topright[2] + 1) |->
            MapTile(v, z, dir, bottomleft[1] + i - 1, topright[2] + j - 1)]]

\* MapTileGrid.from_georect, from the tiles its two corners were turned into:
\* x is swapped if bottomleft.x > topright.x, y if bottomleft.y < topright.y,
\* then the columns range(bottomleft.x, topright.x + 1) are filled with the
\* tiles range(topright.y, bottomleft.y + 1).
from_georect(bottomleft, topright, z, dir, v) ==
    LET swap_x == bottomleft[1] > topright[1]
        swap_y == bottomleft[2] < topright[2]
        bl_x == IF swap_x THEN topright[1] ELSE bottomleft[1]
        tr_x == IF swap_x THEN bottomleft[1] ELSE topright[1]
        bl_y == IF swap_y THEN topright[2] ELSE bottomleft[2]
        tr_y == IF swap_y THEN bottomleft[2] ELSE topright[2]
    IN  [i \in 1..(tr_x - bl_x + 1) |->
            [j \in 1..(bl_y - tr_y + 1) |-> MapTile(v, z, dir, bl_x + i - 1, tr_y + j - 1)]]

\* `grid = MapTileGrid.from_georect(rect, zoom, direction, version)` and
\* MapTileGrid.__init__: width and height are the lengths of the nested list
\* (len(maptiles[0]) raises on an empty list).
FromGeorect ==
    /\ pc = "from_georect"
    /\ built_grid' = from_georect(rect_tiles.bottomleft, rect_tiles.topright,
                                  zoom.zoom, direction, version)
    /\ IF Len(built_grid') = 0
       THEN /\ pc' = "crashed"
            /\ UNCHANGED <<width, height>>
       ELSE /\ width' = Len(built_grid')
            /\ height' = Len(built_grid'[1])
            /\ pc' = "built"
    /\ UNCHANGED <<current_version, version, output_format, direction,
                   args_version, discovery, meters_per_pixel_at_zoom_0,
                   max_meters_per_pixel, zoom, maptiles, grid, previous_grid,
                   tasks, queue, workers, max_workers, prog, downloaded_images,
                   stills, gif, gif_written, error, requested, downloads,
                   verdict, malformed, completed, retried, rect_tiles, image_dimensions, mosaics>>

\* ------------------------------------------------------------- tile fetcher

\* What one requests.get of MapTile.download can end in: a 200 response with a
\* well-formed raster, a ConnectionError, a non-200 response, a 200 response whose
\* body Image.open cannot decode, and a 200 response that decodes to an image that
\* is not RGB or not TILE_SIZE x TILE_SIZE.
Responses ==
    {[kind |-> "ok", raster |-> r] : r \in Rasters}
    \cup {[kind |-> k, raster |-> "none"] : k \in {"conn_error", "not_200", "undecodable"}}
    \cup {[kind |-> "bad_shape", raster |-> "bad"]}

\* MapTile.download after `self.status = DOWNLOADING`: the tile once the request
\* has ended in `resp`.
DownloadResult(tile, resp) ==
    CASE resp.kind = "conn_error" -> [tile EXCEPT !.status = ERROR]
      [] resp.kind = "not_200" -> [tile EXCEPT !.status = ERROR]
      [] resp.kind = "undecodable" -> tile
      [] resp.kind = "bad_shape" -> [tile EXCEPT !.image = resp.raster]
      [] OTHER -> [status |-> DOWNLOADED, image |-> resp.raster]

\* Whether MapTile.download leaves through an exception (Image.open raising, or
\* one of the two sanity-check asserts failing) instead of returning.
DownloadRaises(resp) == resp.kind \in {"undecodable", "bad_shape"}

\* MapTile.load without its guard: every call downloads.
LoadAlwaysDownloads(tile) == TRUE

\* MapTile.load: the guard `self.status != MapTileStatus.DOWNLOADED`.
LoadDownloads(tile) == tile.status # DOWNLOADED

\* The tiles of `seq` (a list of tiles of grid g) that are in ERROR, in order:
\* [maptile for maptile in ... if maptile.status == MapTileStatus.ERROR]
MissingTiles(g, seq) ==
    LET Pick[i \in 0..Len(seq)] ==
            IF i = 0 THEN <<>>
            ELSE IF maptiles[g][seq[i]].status = ERROR
                 THEN Append(Pick[i - 1], seq[i])
                 ELSE Pick[i - 1]
    IN  Pick[Len(seq)]

\* `for maptile in missing_tiles: maptile.load()` in the calling thread, the k-th
\* request ending in resps[k]: the grid's tiles afterwards, whether a load raised
\* (which ends the loop there), and the tiles a request was sent for (as a set,
\* and one by one in the order of the requests).
SerialLoads(tiles, seq, resps) ==
    LET Step[i \in 0..Len(seq)] ==
            IF i = 0 THEN [tiles |-> tiles, raised |-> FALSE, sent |-> {}, order |-> <<>>]
            ELSE LET prev == Step[i - 1]
                     t == seq[i]
                 IN  IF prev.raised \/ ~LoadDownloads(prev.tiles[t]) THEN prev
                     ELSE [tiles |-> [prev.tiles EXCEPT ![t] =
                                         DownloadResult([@ EXCEPT !.status = DOWNLOADING],
                                                        resps[i])],
                           raised |-> DownloadRaises(resps[i]),
                           sent |-> prev.sent \cup {t},
                           order |-> Append(prev.order, t)]
    IN  Step[Len(seq)]

\* ------------------------------------------------------------------- pools

Max(a, b) == IF a >= b THEN a ELSE b

Running == DOMAIN workers

PoolDrained == queue = {} /\ Running = {}

NoWorkers == [i \in {} |-> "download"]

\* A pool worker takes a submitted task and runs MapTile.load up to its guard:
\* a tile that is already DOWNLOADED ends the task at once. The executor hands
\* tasks out in submission order; download() shuffles that order, so there any
\* queued task may come next.
WorkerLoad(i) ==
    /\ pc \in {"probe_pool", "download_pool"}
    /\ i \in queue
    /\ pc = "probe_pool" => \A j \in queue : i <= j
    /\ Cardinality(Running) < max_workers
    /\ queue' = queue \ {i}
    /\ workers' = IF LoadDownloads(maptiles[grid][tasks[i]])
                  THEN [j \in Running \cup {i} |-> IF j = i THEN "download" ELSE workers[j]]
                  ELSE workers
    /\ UNCHANGED <<pc, current_version, version, output_format, direction, args_version,
                   discovery, meters_per_pixel_at_zoom_0,
                   max_meters_per_pixel, zoom, width, height,
                   maptiles, grid, previous_grid, tasks, max_workers, prog,
                   downloaded_images, stills, gif, gif_written, error, requested,
                   downloads, verdict, malformed, completed, retried,
                   rect_tiles, image_dimensions, mosaics, built_grid>>

\* MapTile.download, first statement: self.status = DOWNLOADING; the request is
\* sent next.
WorkerDownloadBegin(i) ==
    /\ i \in Running
    /\ workers[i] = "download"
    /\ maptiles' = [maptiles EXCEPT ![grid][tasks[i]].status = DOWNLOADING]
    /\ workers' = [workers EXCEPT ![i] = "request"]
    /\ requested' = [requested EXCEPT ![grid] = @ \cup {tasks[i]}]
    /\ UNCHANGED <<pc, current_version, version, output_format, direction, args_version,
                   discovery, meters_per_pixel_at_zoom_0,
                   max_meters_per_pixel, zoom, width, height,
                   grid, previous_grid, tasks, queue, max_workers, prog,
                   downloaded_images, stills, gif, gif_written, error,
                   downloads, verdict, malformed, completed, retried,
                   rect_tiles, image_dimensions, mosaics, built_grid>>

\* MapTile.download, the rest: the request ends and the tile is updated. An
\* exception raised in a pool worker is stored in a future nobody reads.
WorkerDownloadEnd(i) ==
    /\ i \in Running
    /\ workers[i] = "request"
    /\ \E resp \in Responses :
          /\ DownloadRaises(resp) => malformed < MaxMalformed
          /\ maptiles' = [maptiles EXCEPT ![grid][tasks[i]] = DownloadResult(@, resp)]
          /\ malformed' = malformed + (IF DownloadRaises(resp) THEN 1 ELSE 0)
    /\ workers' = [j \in Running \ {i} |-> workers[j]]
    /\ UNCHANGED <<pc, current_version, version, output_format, direction, args_version,
                   discovery, meters_per_pixel_at_zoom_0,
                   max_meters_per_pixel, zoom, width, height,
                   grid, previous_grid, tasks, queue, max_workers, prog,
                   downloaded_images, stills, gif, gif_written, error, requested,
                   downloads, verdict, completed, retried,
                   rect_tiles, image_dimensions, mosaics, built_grid>>

\* ---------------------------------------------------------- MapTileGrid.download

\* grid.download() is entered on the grid with tiles `tiles` (main first sets
\* previous_grid = grid, which leaves the old reference grid unreachable): the
\* progress thread is started and every tile of the grid is submitted, in
\* shuffled order, to a pool of max(width, height) workers.
EnterDownload(tiles) ==
    /\ previous_grid' = grid'
    /\ maptiles' = [g \in {grid'} |-> tiles]
    /\ downloads' = downloads \cup {grid'}
    /\ prog' = "running"
    /\ tasks' = FlatSeq
    /\ queue' = 1..Len(FlatSeq)
    /\ workers' = NoWorkers
    /\ max_workers' = Max(width, height)
    /\ pc' = "download_pool"

\* The retry condition without its upper bound: any failed tile is retried.
RetryAnyMissing(missing, total) == 0 < missing

\* `0 < len(missing_tiles) < 0.2 * len(self.flat())`
RetryWanted(missing, total) == 0 < missing /\ 5 * missing < total

\* DownloadRetry without the wait for the pool: the failed tiles are counted
\* while loads may still be queued or running.
DownloadRetryEarly ==
    /\ pc = "download_pool"
    /\ LET missing == MissingTiles(grid, FlatSeq)
           to_retry == IF RetryWanted(Len(missing), Len(FlatSeq)) THEN missing ELSE <<>>
       IN  \E resps \in [1..Len(to_retry) -> Responses] :
              LET r == SerialLoads(maptiles[grid], to_retry, resps)
              IN  /\ r.raised => malformed < MaxMalformed
                  /\ maptiles' = [maptiles EXCEPT ![grid] = r.tiles]
                  /\ requested' = [requested EXCEPT ![grid] = @ \cup r.sent]
                  /\ malformed' = malformed + (IF r.raised THEN 1 ELSE 0)
                  /\ retried' = r.order
                  /\ pc' = IF r.raised THEN "crashed" ELSE "download_join"
    /\ UNCHANGED <<current_version, version, output_format, direction, args_version,
                   discovery, meters_per_pixel_at_zoom_0,
                   max_meters_per_pixel, zoom, width, height, grid,
                   previous_grid, tasks, queue, workers, max_workers, prog,
                   downloaded_images, stills, gif, gif_written, error,
                   downloads, verdict, completed,
                   rect_tiles, image_dimensions, mosaics, built_grid>>

\* After the pool has drained: the failed tiles are retried serially if there
\* are few enough of them. A load that raises here raises out of main().
DownloadRetry ==
    /\ pc = "download_pool"
    /\ PoolDrained
    /\ LET missing == MissingTiles(grid, FlatSeq)
           to_retry == IF RetryWanted(Len(missing), Len(FlatSeq)) THEN missing ELSE <<>>
       IN  \E resps \in [1..Len(to_retry) -> Responses] :
              LET r == SerialLoads(maptiles[grid], to_retry, resps)
              IN  /\ r.raised => malformed < MaxMalformed
                  /\ maptiles' = [maptiles EXCEPT ![grid] = r.tiles]
                  /\ requested' = [requested EXCEPT ![grid] = @ \cup r.sent]
                  /\ malformed' = malformed + (IF r.raised THEN 1 ELSE 0)
                  /\ retried' = r.order
                  /\ pc' = IF r.raised THEN "crashed" ELSE "download_join"
    /\ UNCHANGED <<current_version, version, output_format, direction, args_version,
                   discovery, meters_per_pixel_at_zoom_0,
                   max_meters_per_pixel, zoom, width, height, grid,
                   previous_grid, tasks, queue, workers, max_workers, prog,
                   downloaded_images, stills, gif, gif_written, error,
                   downloads, verdict, completed,
                   rect_tiles, image_dimensions, mosaics, built_grid>>

\* ProgressIndicator.loop leaving its while loop without looking at the tiles.
ProgressLoopExitsAnyway ==
    /\ prog = "running"
    /\ prog' = "stopped"
    /\ UNCHANGED <<pc, current_version, version, output_format, direction, args_version,
                   discovery, meters_per_pixel_at_zoom_0,
                   max_meters_per_pixel, zoom, width, height,
                   maptiles, grid, previous_grid, tasks, queue, workers,
                   max_workers, downloaded_images, stills, gif, gif_written,
                   error, requested, downloads, verdict, malformed, completed, retried,
                   rect_tiles, image_dimensions, mosaics, built_grid>>

\* ProgressIndicator.loop leaves its while loop once it sees no tile of the
\* grid in PENDING or DOWNLOADING.
ProgressLoopExit ==
    /\ prog = "running"
    /\ \A t \in Flat : maptiles[grid][t].status \notin {PENDING, DOWNLOADING}
    /\ prog' = "stopped"
    /\ UNCHANGED <<pc, current_version, version, output_format, direction, args_version,
                   discovery, meters_per_pixel_at_zoom_0,
                   max_meters_per_pixel, zoom, width, height,
                   maptiles, grid, previous_grid, tasks, queue, workers,
                   max_workers, downloaded_images, stills, gif, gif_written,
                   error, requested, downloads, verdict, malformed, completed, retried,
                   rect_tiles, image_dimensions, mosaics, built_grid>>

\* DownloadJoin without the final check: download() returns to main() whatever
\* the tiles' statuses are.
DownloadJoinNoCheck ==
    /\ pc = "download_join"
    /\ prog = "stopped"
    /\ prog' = "idle"
    /\ pc' = "stitch"
    /\ completed' = completed \cup {grid}
    /\ UNCHANGED <<current_version, version, output_format, direction, args_version,
                   discovery, meters_per_pixel_at_zoom_0,
                   max_meters_per_pixel, zoom, width, height,
                   maptiles, grid, previous_grid, tasks, queue, workers,
                   max_workers, downloaded_images, stills, gif, gif_written,
                   error, requested, downloads, verdict, malformed, retried,
                   rect_tiles, image_dimensions, mosaics, built_grid>>

\* prog_thread.join() returns, then the final check: MissingTilesError if a
\* tile is still in ERROR, else download() returns to main().
DownloadJoin ==
    /\ pc = "download_join"
    /\ prog = "stopped"
    /\ prog' = "idle"
    /\ LET missing == MissingTiles(grid, FlatSeq)
       IN  IF Len(missing) > 0
           THEN /\ error' = <<Len(missing), Len(FlatSeq), "download">>
                /\ pc' = "except"
           ELSE /\ error' = error
                /\ pc' = "stitch"
    /\ completed' = IF Len(MissingTiles(grid, FlatSeq)) > 0 THEN completed
                    ELSE completed \cup {grid}
    /\ UNCHANGED <<current_version, version, output_format, direction, args_version,
                   discovery, meters_per_pixel_at_zoom_0,
                   max_meters_per_pixel, zoom, width, height,
                   maptiles, grid, previous_grid, tasks, queue, workers,
                   max_workers, downloaded_images, stills, gif, gif_written,
                   requested, downloads, verdict, malformed, retried,
                   rect_tiles, image_dimensions, mosaics, built_grid>>

\* ------------------------------------------- MapTileGrid.corners_identical_to

\* The retry of the corner probe: every corner that is in ERROR after the pool
\* is loaded once more, serially. A load that raises here raises out of main().
ProbeRetry ==
    /\ pc = "probe_pool"
    /\ PoolDrained
    /\ LET missing == MissingTiles(grid, Corners)
       IN  \E resps \in [1..Len(missing) -> Responses] :
              LET r == SerialLoads(maptiles[grid], missing, resps)
              IN  /\ r.raised => malformed < MaxMalformed
                  /\ maptiles' = [maptiles EXCEPT ![grid] = r.tiles]
                  /\ requested' = [requested EXCEPT ![grid] = @ \cup r.sent]
                  /\ malformed' = malformed + (IF r.raised THEN 1 ELSE 0)
                  /\ retried' = r.order
                  /\ pc' = IF r.raised THEN "crashed" ELSE "probe_compare"
    /\ UNCHANGED <<current_version, version, output_format, direction, args_version,
                   discovery, meters_per_pixel_at_zoom_0,
                   max_meters_per_pixel, zoom, width, height, grid,
                   previous_grid, tasks, queue, workers, max_workers, prog,
                   downloaded_images, stills, gif, gif_written, error,
                   downloads, verdict, completed,
                   rect_tiles, image_dimensions, mosaics, built_grid>>

\* What ImageChops.difference and the any(...) over its pixels can make of two
\* tile images: None raises; an image that is not a 256x256 RGB raster raises
\* or is compared over whatever the two images share; two rasters differ iff
\* some channel of some pixel differs.
PairResults(a, b) ==
    IF a = "none" \/ b = "none" THEN {"raise"}
    ELSE IF a = "bad" \/ b = "bad" THEN {"raise", "same", "differs"}
    ELSE IF a = b THEN {"same"} ELSE {"differs"}

\* The comparison loop over zip(self_corners, other_corners): the first pair
\* that is not the same decides; True when all four are the same.
CompareResults(self_tiles, other_tiles) ==
    LET PairsOf(k) == PairResults(self_tiles[Corners[k]].image,
                                  other_tiles[Corners[k]].image)
        SameUpTo(k) == \A j \in 1..(k - 1) : "same" \in PairsOf(j)
    IN  {"different" : k \in {k \in 1..4 : SameUpTo(k) /\ "differs" \in PairsOf(k)}}
        \cup {"raise" : k \in {k \in 1..4 : SameUpTo(k) /\ "raise" \in PairsOf(k)}}
        \cup {"identical" : k \in {k \in {5} : SameUpTo(k)}}

\* The probe's final check finds a corner still in ERROR: MissingTilesError,
\* with total = len(self_corners).
ProbeMissing ==
    /\ pc = "probe_compare"
    /\ Len(MissingTiles(grid, Corners)) > 0
    /\ error' = <<Len(MissingTiles(grid, Corners)), Len(Corners), "corners">>
    /\ pc' = "except"
    /\ UNCHANGED <<current_version, version, output_format, direction, args_version,
                   discovery, meters_per_pixel_at_zoom_0,
                   max_meters_per_pixel, zoom, width, height,
                   maptiles, grid, previous_grid, tasks, queue, workers,
                   max_workers, prog, downloaded_images, stills, gif,
                   gif_written, requested, downloads, verdict, malformed, completed, retried,
                   rect_tiles, image_dimensions, mosaics, built_grid>>

\* ProbeIdentical with the `continue` forgotten: the version is downloaded in
\* full although its corners are identical.
ProbeIdenticalNoSkip ==
    /\ pc = "probe_compare"
    /\ Len(MissingTiles(grid, Corners)) = 0
    /\ "identical" \in CompareResults(maptiles[grid], maptiles[previous_grid])
    /\ verdict' = [verdict EXCEPT ![version] = "identical"]
    /\ grid' = grid
    /\ EnterDownload(maptiles[grid])
    /\ retried' = <<>>
    /\ UNCHANGED <<current_version, version, output_format, direction, args_version,
                   discovery, meters_per_pixel_at_zoom_0,
                   max_meters_per_pixel, zoom, width, height,
                   downloaded_images, stills, gif, gif_written, error,
                   requested, malformed, completed,
                   rect_tiles, image_dimensions, mosaics, built_grid>>

\* ProbeIdentical with `previous_grid = grid` moved above the comparison: a
\* skipped version becomes the reference.
ProbeIdenticalRebinds ==
    /\ pc = "probe_compare"
    /\ Len(MissingTiles(grid, Corners)) = 0
    /\ "identical" \in CompareResults(maptiles[grid], maptiles[previous_grid])
    /\ verdict' = [verdict EXCEPT ![version] = "identical"]
    /\ previous_grid' = grid
    /\ version' = version - 1
    /\ pc' = "loop"
    /\ UNCHANGED <<current_version, output_format, direction, args_version,
                   discovery, meters_per_pixel_at_zoom_0,
                   max_meters_per_pixel, zoom, width, height, maptiles, grid,
                   tasks, queue, workers, max_workers, prog,
                   downloaded_images, stills, gif, gif_written, error,
                   requested, downloads, malformed, completed, retried,
                   rect_tiles, image_dimensions, mosaics, built_grid>>

\* corners_identical_to returns True: main() goes on to the next version.
ProbeIdentical ==
    /\ pc = "probe_compare"
    /\ Len(MissingTiles(grid, Corners)) = 0
    /\ "identical" \in CompareResults(maptiles[grid], maptiles[previous_grid])
    /\ verdict' = [verdict EXCEPT ![version] = "identical"]
    /\ version' = version - 1
    /\ pc' = "loop"
    /\ UNCHANGED <<current_version, output_format, direction, args_version,
                   discovery, meters_per_pixel_at_zoom_0,
                   max_meters_per_pixel, zoom, width, height, maptiles, grid,
                   previous_grid, tasks, queue, workers, max_workers, prog,
                   downloaded_images, stills, gif, gif_written, error,
                   requested, downloads, malformed, completed, retried,
                   rect_tiles, image_dimensions, mosaics, built_grid>>

\* corners_identical_to returns False: main() makes the grid the reference and
\* downloads it in full.
ProbeDifferent ==
    /\ pc = "probe_compare"
    /\ Len(MissingTiles(grid, Corners)) = 0
    /\ "different" \in CompareResults(maptiles[grid], maptiles[previous_grid])
    /\ verdict' = [verdict EXCEPT ![version] = "different"]
    /\ grid' = grid
    /\ EnterDownload(maptiles[grid])
    /\ retried' = <<>>
    /\ UNCHANGED <<current_version, version, output_format, direction, args_version,
                   discovery, meters_per_pixel_at_zoom_0,
                   max_meters_per_pixel, zoom, width, height,
                   downloaded_images, stills, gif, gif_written, error,
                   requested, malformed, completed,
                   rect_tiles, image_dimensions, mosaics, built_grid>>

\* The comparison raises (a corner without a usable image): main() has no
\* handler for it.
ProbeRaises ==
    /\ pc = "probe_compare"
    /\ Len(MissingTiles(grid, Corners)) = 0
    /\ "raise" \in CompareResults(maptiles[grid], maptiles[previous_grid])
    /\ pc' = "crashed"
    /\ UNCHANGED <<current_version, version, output_format, direction, args_version,
                   discovery, meters_per_pixel_at_zoom_0,
                   max_meters_per_pixel, zoom, width, height,
                   maptiles, grid, previous_grid, tasks, queue, workers,
                   max_workers, prog, downloaded_images, stills, gif,
                   gif_written, error, requested, downloads, verdict, malformed, completed, retried,
                   rect_tiles, image_dimensions, mosaics, built_grid>>

\* --------------------------------------------------------------------- main

NoError == <<0, 0, "none">>

\* `if output_format != "gif"`: the still of a version is saved.
SavesStill(format) == format # "gif"

\* `if output_format != "jpeg"`: the GIF is written.
WritesGif(format) == format # "jpeg"

\* downloaded_images.reverse() forgotten: the list stays newest first.
NotReversed(s) == s

\* downloaded_images.reverse()
Reverse(s) == [i \in 1..Len(s) |-> s[Len(s) + 1 - i]]

\* The grids main() still refers to once `grid` is rebound to a new grid.
LiveGrids(new) == {new} \cup ({previous_grid} \ {NoGrid})

\* The first iteration: the grid is built and downloaded in full at once.
StartFirst ==
    /\ pc = "loop"
    /\ version >= 0
    /\ version = current_version
    /\ grid' = version
    /\ EnterDownload(NewGrid)
    /\ retried' = <<>>
    /\ UNCHANGED <<current_version, version, output_format, direction, args_version,
                   discovery, meters_per_pixel_at_zoom_0,
                   max_meters_per_pixel, zoom, width, height,
                   downloaded_images, stills, gif, gif_written, error,
                   requested, verdict, malformed, completed,
                   rect_tiles, image_dimensions, mosaics, built_grid>>

\* A later iteration: the grid is built and corners_identical_to(previous_grid)
\* is entered; it asserts that the reference's corners are DOWNLOADED and
\* submits the four corners to a pool of 8 workers.
StartProbe ==
    /\ pc = "loop"
    /\ version >= 0
    /\ version # current_version
    /\ grid' = version
    /\ maptiles' = [g \in LiveGrids(version) |-> IF g = version THEN NewGrid ELSE maptiles[g]]
    /\ IF /\ previous_grid # NoGrid
          /\ \A k \in 1..Len(Corners) : maptiles[previous_grid][Corners[k]].status = DOWNLOADED
       THEN /\ tasks' = Corners
            /\ queue' = 1..Len(Corners)
            /\ max_workers' = CornerPoolWorkers
            /\ pc' = "probe_pool"
       ELSE /\ pc' = "crashed"
            /\ UNCHANGED <<tasks, queue, max_workers>>
    /\ retried' = <<>>
    /\ UNCHANGED <<current_version, version, output_format, direction, args_version,
                   discovery, meters_per_pixel_at_zoom_0,
                   max_meters_per_pixel, zoom, width, height,
                   previous_grid, workers, prog, downloaded_images, stills, gif,
                   gif_written, error, requested, downloads, verdict, malformed, completed,
                   rect_tiles, image_dimensions, mosaics, built_grid>>

\* grid.stitch(): every tile's image is pasted; a tile without an image raises.
Stitch ==
    /\ pc = "stitch"
    /\ IF \E t \in Flat : maptiles[grid][t].image = "none"
       THEN /\ pc' = "crashed"
            /\ UNCHANGED mosaics
       ELSE /\ pc' = "emit"
            /\ mosaics' = [mosaics EXCEPT ![version] = <<"stitch">>]
    /\ UNCHANGED <<current_version, version, output_format, direction, args_version,
                   discovery, meters_per_pixel_at_zoom_0,
                   max_meters_per_pixel, zoom, width, height,
                   maptiles, grid, previous_grid, tasks, queue, workers,
                   max_workers, prog, downloaded_images, stills, gif,
                   gif_written, error, requested, downloads, verdict, malformed, completed, retried,
                   rect_tiles, image_dimensions, built_grid>>

\* The tiles of a grid that has been stitched, as later iterations see them.
\* From here on a raster of the grid is only ever compared for equality with the
\* raster a later version has at the same position, so each position's rasters
\* are renamed to make the reference's own raster the first one: "a" is then
\* "the same pixels as the reference's tile", "b" is "other pixels".
AsReference(tiles) ==
    [t \in DOMAIN tiles |->
        IF tiles[t].image \in Rasters THEN [tiles[t] EXCEPT !.image = "a"] ELSE tiles[t]]

\* What main does with a stitched image, in order: crop, scale if an output
\* width or height was given, save unless the format is "gif", append to
\* downloaded_images.
MosaicSteps(fmt, dimensions) ==
    <<"crop">> \o (IF dimensions THEN <<"scale">> ELSE <<>>)
               \o (IF SavesStill(fmt) THEN <<"save">> ELSE <<>>)
               \o <<"append">>

\* Emit with the image scaled whether or not output dimensions were given.
EmitAlwaysScales ==
    /\ pc = "emit"
    /\ maptiles' = [maptiles EXCEPT ![grid] = AsReference(@)]
    /\ stills' = IF SavesStill(output_format) THEN Append(stills, version) ELSE stills
    /\ mosaics' = [mosaics EXCEPT ![version] = @ \o MosaicSteps(output_format, TRUE)]
    /\ downloaded_images' = Append(downloaded_images, version)
    /\ version' = version - 1
    /\ pc' = "loop"
    /\ UNCHANGED <<current_version, output_format, direction, args_version,
                   discovery, meters_per_pixel_at_zoom_0,
                   max_meters_per_pixel, zoom, width, height, grid,
                   previous_grid, tasks, queue, workers, max_workers, prog, gif,
                   gif_written, error, requested, downloads, verdict, malformed,
                   completed, retried, rect_tiles, built_grid, image_dimensions>>

\* Emit with the loop variable left as it is: the same version is visited again.
EmitRevisits ==
    /\ pc = "emit"
    /\ maptiles' = [maptiles EXCEPT ![grid] = AsReference(@)]
    /\ stills' = IF SavesStill(output_format) THEN Append(stills, version) ELSE stills
    /\ mosaics' = [mosaics EXCEPT ![version] = @ \o MosaicSteps(output_format, image_dimensions)]
    /\ downloaded_images' = Append(downloaded_images, version)
    /\ pc' = "loop"
    /\ UNCHANGED <<current_version, version, output_format, direction, args_version,
                   discovery, meters_per_pixel_at_zoom_0,
                   max_meters_per_pixel, zoom, width, height, grid,
                   previous_grid, tasks, queue, workers, max_workers, prog, gif,
                   gif_written, error, requested, downloads, verdict, malformed, completed, retried,
                   rect_tiles, image_dimensions, built_grid>>

\* The image is cropped and scaled, saved as a JPEG unless the format is
\* "gif", and appended to downloaded_images; the loop goes on.
Emit ==
    /\ pc = "emit"
    /\ maptiles' = [maptiles EXCEPT ![grid] = AsReference(@)]
    /\ stills' = IF SavesStill(output_format) THEN Append(stills, version) ELSE stills
    /\ mosaics' = [mosaics EXCEPT ![version] = @ \o MosaicSteps(output_format, image_dimensions)]
    /\ downloaded_images' = Append(downloaded_images, version)
    /\ version' = version - 1
    /\ pc' = "loop"
    /\ UNCHANGED <<current_version, output_format, direction, args_version,
                   discovery, meters_per_pixel_at_zoom_0,
                   max_meters_per_pixel, zoom, width, height, grid,
                   previous_grid, tasks, queue, workers, max_workers, prog, gif,
                   gif_written, error, requested, downloads, verdict, malformed, completed, retried,
                   rect_tiles, image_dimensions, built_grid>>

\* The handler's effect when it finalizes: the GIF is written from the reversed
\* list and the loop is left.
Finalize ==
    /\ pc' = "done"
    /\ IF WritesGif(output_format)
       THEN /\ downloaded_images' = Reverse(downloaded_images)
            /\ gif' = Reverse(downloaded_images)
            /\ gif_written' = TRUE
       ELSE UNCHANGED <<downloaded_images, gif, gif_written>>

\* ExceptMissingTiles without the `version == current_version` test: a failed
\* first iteration is finalized like any other.
ExceptNeverFatal ==
    /\ pc = "except"
    /\ Finalize
    /\ UNCHANGED <<current_version, version, output_format, direction, args_version,
                   discovery, meters_per_pixel_at_zoom_0,
                   max_meters_per_pixel, zoom, width, height,
                   maptiles, grid, previous_grid, tasks, queue, workers,
                   max_workers, prog, stills, error, requested, downloads,
                   verdict, malformed, completed, retried,
                   rect_tiles, image_dimensions, mosaics, built_grid>>

\* ExceptMissingTiles with `continue` in place of `break`: the crawl goes on
\* to the next version.
ExceptContinues ==
    /\ pc = "except"
    /\ IF version = current_version
       THEN /\ pc' = "fatal"
            /\ UNCHANGED <<version, downloaded_images, gif, gif_written>>
       ELSE /\ pc' = "loop"
            /\ version' = version - 1
            /\ UNCHANGED <<downloaded_images, gif, gif_written>>
    /\ UNCHANGED <<current_version, output_format, direction, args_version,
                   discovery, meters_per_pixel_at_zoom_0,
                   max_meters_per_pixel, zoom, width, height,
                   maptiles, grid, previous_grid, tasks, queue, workers,
                   max_workers, prog, stills, error, requested, downloads,
                   verdict, malformed, completed, retried,
                   rect_tiles, image_dimensions, mosaics, built_grid>>

\* ExceptMissingTiles telling a partial failure from a total one: with
\* 0 < missing < total it raises instead of finalizing.
ExceptPartialIsFatal ==
    /\ pc = "except"
    /\ IF version = current_version \/ error[1] < error[2]
       THEN /\ pc' = "fatal"
            /\ UNCHANGED <<downloaded_images, gif, gif_written>>
       ELSE Finalize
    /\ UNCHANGED <<current_version, version, output_format, direction, args_version,
                   discovery, meters_per_pixel_at_zoom_0,
                   max_meters_per_pixel, zoom, width, height,
                   maptiles, grid, previous_grid, tasks, queue, workers,
                   max_workers, prog, stills, error, requested, downloads,
                   verdict, malformed, completed, retried,
                   rect_tiles, image_dimensions, mosaics, built_grid>>

\* `except MissingTilesError`: a RuntimeError on the first iteration; otherwise
\* the GIF is written from the reversed list and the loop is left.
ExceptMissingTiles ==
    /\ pc = "except"
    /\ IF version = current_version
       THEN /\ pc' = "fatal"
            /\ UNCHANGED <<downloaded_images, gif, gif_written>>
       ELSE Finalize
    /\ UNCHANGED <<current_version, version, output_format, direction, args_version,
                   discovery, meters_per_pixel_at_zoom_0,
                   max_meters_per_pixel, zoom, width, height,
                   maptiles, grid, previous_grid, tasks, queue, workers,
                   max_workers, prog, stills, error, requested, downloads, verdict, malformed, completed, retried,
                   rect_tiles, image_dimensions, mosaics, built_grid>>

\* range(current_version, -1, -1) is exhausted: main() returns.
LoopExhausted ==
    /\ pc = "loop"
    /\ version < 0
    /\ pc' = "done"
    /\ UNCHANGED <<current_version, version, output_format, direction, args_version,
                   discovery, meters_per_pixel_at_zoom_0,
                   max_meters_per_pixel, zoom, width, height,
                   maptiles, grid, previous_grid, tasks, queue, workers,
                   max_workers, prog, downloaded_images, stills, gif,
                   gif_written, error, requested, downloads, verdict, malformed, completed, retried,
                   rect_tiles, image_dimensions, mosaics, built_grid>>

\* ------------------------------------------------------------- specification

Init ==
    /\ pc = "loop"
    /\ current_version \in Versions
    /\ version = current_version
    /\ output_format \in OutputFormats
    /\ direction = "downward"
    /\ args_version = <<>>
    /\ discovery = [status |-> "fetched", downward |-> <<current_version>>,
                    oblique |-> <<>>]
    /\ meters_per_pixel_at_zoom_0 = 2 * (2 ^ MaxZoom)
    /\ max_meters_per_pixel = 2 * (2 ^ 4)
    /\ zoom = compute_zoom_level(meters_per_pixel_at_zoom_0, max_meters_per_pixel)
    /\ \E shape \in GridShapes : width = shape[1] /\ height = shape[2]
    /\ maptiles = [g \in {} |-> NewGrid]
    /\ grid = NoGrid
    /\ previous_grid = NoGrid
    /\ tasks = <<>>
    /\ queue = {}
    /\ workers = NoWorkers
    /\ max_workers = 0
    /\ prog = "idle"
    /\ downloaded_images = <<>>
    /\ stills = <<>>
    /\ gif = <<>>
    /\ gif_written = FALSE
    /\ error = NoError
    /\ requested = [v \in Versions |-> {}]
    /\ downloads = {}
    /\ verdict = [v \in Versions |-> "none"]
    /\ malformed = 0
    /\ completed = {}
    /\ retried = <<>>
    /\ rect_tiles = [bottomleft |-> <<0, height - 1>>, topright |-> <<width - 1, 0>>]
    /\ built_grid = <<>>
    /\ image_dimensions = FALSE
    /\ mosaics = [v \in Versions |-> <<>>]

Next ==
    \/ StartFirst
    \/ StartProbe
    \/ \E i \in 1..Len(tasks) : WorkerLoad(i)
    \/ \E i \in 1..Len(tasks) : WorkerDownloadBegin(i)
    \/ \E i \in 1..Len(tasks) : WorkerDownloadEnd(i)
    \/ ProbeRetry
    \/ ProbeMissing
    \/ ProbeIdentical
    \/ ProbeDifferent
    \/ ProbeRaises
    \/ DownloadRetry
    \/ ProgressLoopExit
    \/ DownloadJoin
    \/ Stitch
    \/ Emit
    \/ ExceptMissingTiles
    \/ LoopExhausted

Spec == Init /\ [][Next]_vars

\* The crawl on the grid of MosaicGridShape, with and without output dimensions.
InitMosaic ==
    /\ pc = "loop"
    /\ current_version \in Versions
    /\ version = current_version
    /\ output_format \in OutputFormats
    /\ direction = "downward"
    /\ args_version = <<>>
    /\ discovery = [status |-> "fetched", downward |-> <<current_version>>,
                    oblique |-> <<>>]
    /\ meters_per_pixel_at_zoom_0 = 2 * (2 ^ MaxZoom)
    /\ max_meters_per_pixel = 2 * (2 ^ 4)
    /\ zoom = compute_zoom_level(meters_per_pixel_at_zoom_0, max_meters_per_pixel)
    /\ width = MosaicGridShape[1]
    /\ height = MosaicGridShape[2]
    /\ maptiles = [g \in {} |-> NewGrid]
    /\ grid = NoGrid
    /\ previous_grid = NoGrid
    /\ tasks = <<>>
    /\ queue = {}
    /\ workers = NoWorkers
    /\ max_workers = 0
    /\ prog = "idle"
    /\ downloaded_images = <<>>
    /\ stills = <<>>
    /\ gif = <<>>
    /\ gif_written = FALSE
    /\ error = NoError
    /\ requested = [v \in Versions |-> {}]
    /\ downloads = {}
    /\ verdict = [v \in Versions |-> "none"]
    /\ malformed = 0
    /\ completed = {}
    /\ retried = <<>>
    /\ rect_tiles = [bottomleft |-> <<0, height - 1>>, topright |-> <<width - 1, 0>>]
    /\ built_grid = <<>>
    /\ image_dimensions \in BOOLEAN
    /\ mosaics = [v \in Versions |-> <<>>]

SpecMosaic == InitMosaic /\ [][Next]_vars

\* A crawl that starts at version 0, on the grid of RetryGridShape: one full
\* download, with its retry.
InitGrid ==
    /\ pc = "loop"
    /\ current_version = 0
    /\ version = current_version
    /\ output_format \in OutputFormats
    /\ direction = "downward"
    /\ args_version = <<>>
    /\ discovery = [status |-> "fetched", downward |-> <<current_version>>,
                    oblique |-> <<>>]
    /\ meters_per_pixel_at_zoom_0 = 2 * (2 ^ MaxZoom)
    /\ max_meters_per_pixel = 2 * (2 ^ 4)
    /\ zoom = compute_zoom_level(meters_per_pixel_at_zoom_0, max_meters_per_pixel)
    /\ width = RetryGridShape[1]
    /\ height = RetryGridShape[2]
    /\ maptiles = [g \in {} |-> NewGrid]
    /\ grid = NoGrid
    /\ previous_grid = NoGrid
    /\ tasks = <<>>
    /\ queue = {}
    /\ workers = NoWorkers
    /\ max_workers = 0
    /\ prog = "idle"
    /\ downloaded_images = <<>>
    /\ stills = <<>>
    /\ gif = <<>>
    /\ gif_written = FALSE
    /\ error = NoError
    /\ requested = [v \in Versions |-> {}]
    /\ downloads = {}
    /\ verdict = [v \in Versions |-> "none"]
    /\ malformed = 0
    /\ completed = {}
    /\ retried = <<>>
    /\ rect_tiles = [bottomleft |-> <<0, height - 1>>, topright |-> <<width - 1, 0>>]
    /\ built_grid = <<>>
    /\ image_dimensions = FALSE
    /\ mosaics = [v \in Versions |-> <<>>]

NextGrid ==
    \/ StartFirst
    \/ \E i \in 1..Len(tasks) : WorkerLoad(i)
    \/ \E i \in 1..Len(tasks) : WorkerDownloadBegin(i)
    \/ \E i \in 1..Len(tasks) : WorkerDownloadEnd(i)
    \/ DownloadRetry
    \/ ProgressLoopExit
    \/ DownloadJoin
    \/ Stitch
    \/ Emit
    \/ ExceptMissingTiles
    \/ LoopExhausted

SpecGrid == InitGrid /\ [][NextGrid]_vars

\* main() up to the loop: the options are processed and the current version is
\* looked up.
InitDiscovery ==
    /\ pc = "discover"
    /\ direction \in Directions
    /\ args_version \in {<<>>} \cup {<<v>> : v \in Versions}
    /\ current_version = FallbackVersion(direction, args_version)
    /\ version = current_version
    /\ discovery = NotDiscovered
    /\ meters_per_pixel_at_zoom_0 = 2 * (2 ^ MaxZoom)
    /\ max_meters_per_pixel = 2 * (2 ^ 4)
    /\ zoom = NoZoom
    /\ output_format \in OutputFormats
    /\ \E shape \in GridShapes : width = shape[1] /\ height = shape[2]
    /\ maptiles = [g \in {} |-> NewGrid]
    /\ grid = NoGrid
    /\ previous_grid = NoGrid
    /\ tasks = <<>>
    /\ queue = {}
    /\ workers = NoWorkers
    /\ max_workers = 0
    /\ prog = "idle"
    /\ downloaded_images = <<>>
    /\ stills = <<>>
    /\ gif = <<>>
    /\ gif_written = FALSE
    /\ error = NoError
    /\ requested = [v \in Versions |-> {}]
    /\ downloads = {}
    /\ verdict = [v \in Versions |-> "none"]
    /\ malformed = 0
    /\ completed = {}
    /\ retried = <<>>
    /\ rect_tiles = [bottomleft |-> <<0, height - 1>>, topright |-> <<width - 1, 0>>]
    /\ built_grid = <<>>
    /\ image_dimensions = FALSE
    /\ mosaics = [v \in Versions |-> <<>>]

NextDiscovery ==
    \/ Discover
    \/ ComputeZoom

SpecDiscovery == InitDiscovery /\ [][NextDiscovery]_vars

\* main() at its call of compute_zoom_level, for every resolution at zoom 0
\* and every constraint tried; version 0 was discovered.
InitZoom ==
    /\ pc = "compute_zoom"
    /\ current_version = 0
    /\ version = current_version
    /\ output_format \in OutputFormats
    /\ direction = "downward"
    /\ args_version = <<>>
    /\ discovery = [status |-> "fetched", downward |-> <<current_version>>,
                    oblique |-> <<>>]
    /\ meters_per_pixel_at_zoom_0 \in ZoomZeroResolutions
    /\ max_meters_per_pixel \in ZoomConstraints
    /\ zoom = NoZoom
    /\ \E shape \in GridShapes : width = shape[1] /\ height = shape[2]
    /\ maptiles = [g \in {} |-> NewGrid]
    /\ grid = NoGrid
    /\ previous_grid = NoGrid
    /\ tasks = <<>>
    /\ queue = {}
    /\ workers = NoWorkers
    /\ max_workers = 0
    /\ prog = "idle"
    /\ downloaded_images = <<>>
    /\ stills = <<>>
    /\ gif = <<>>
    /\ gif_written = FALSE
    /\ error = NoError
    /\ requested = [v \in Versions |-> {}]
    /\ downloads = {}
    /\ verdict = [v \in Versions |-> "none"]
    /\ malformed = 0
    /\ completed = {}
    /\ retried = <<>>
    /\ rect_tiles = [bottomleft |-> <<0, height - 1>>, topright |-> <<width - 1, 0>>]
    /\ built_grid = <<>>
    /\ image_dimensions = FALSE
    /\ mosaics = [v \in Versions |-> <<>>]

NextZoom == ComputeZoom

SpecZoom == InitZoom /\ [][NextZoom]_vars

\* main() at the first call of from_georect, for every pair of corner tiles.
InitFromGeorect ==
    /\ pc = "from_georect"
    /\ current_version \in Versions
    /\ version = current_version
    /\ output_format = "both"
    /\ direction \in Directions
    /\ args_version = <<>>
    /\ discovery = [status |-> "fetched",
                    downward |-> IF IsOblique(direction) THEN <<>> ELSE <<current_version>>,
                    oblique |-> IF IsOblique(direction) THEN <<current_version>> ELSE <<>>]
    /\ meters_per_pixel_at_zoom_0 = 2 * (2 ^ MaxZoom)
    /\ max_meters_per_pixel = 2 * (2 ^ 4)
    /\ zoom = compute_zoom_level(meters_per_pixel_at_zoom_0, max_meters_per_pixel)
    /\ rect_tiles \in [bottomleft : (0..MaxTileCoordinate) \X (0..MaxTileCoordinate),
                        topright : (0..MaxTileCoordinate) \X (0..MaxTileCoordinate)]
    /\ built_grid = <<>>
    /\ image_dimensions = FALSE
    /\ mosaics = [v \in Versions |-> <<>>]
    /\ width = 0
    /\ height = 0
    /\ maptiles = [g \in {} |-> <<>>]
    /\ grid = NoGrid
    /\ previous_grid = NoGrid
    /\ tasks = <<>>
    /\ queue = {}
    /\ workers = NoWorkers
    /\ max_workers = 0
    /\ prog = "idle"
    /\ downloaded_images = <<>>
    /\ stills = <<>>
    /\ gif = <<>>
    /\ gif_written = FALSE
    /\ error = NoError
    /\ requested = [v \in Versions |-> {}]
    /\ downloads = {}
    /\ verdict = [v \in Versions |-> "none"]
    /\ malformed = 0
    /\ completed = {}
    /\ retried = <<>>
    /\ image_dimensions = FALSE
    /\ mosaics = [v \in Versions |-> <<>>]

NextFromGeorect == FromGeorect

SpecFromGeorect == InitFromGeorect /\ [][NextFromGeorect]_vars

\* ------------------------------------------------------------------ claims

\* The versions of the mosaics collected in downloaded_images.
Mosaics == {downloaded_images[i] : i \in 1..Len(downloaded_images)}

\* The corner tiles of a grid, as a set.
CornerSet == {Corners[k] : k \in 1..Len(Corners)}

\* Version v is the first iteration and has been started, or its corner probe
\* found a difference.
FirstOrDifferent(v) ==
    \/ v = current_version /\ grid # NoGrid
    \/ verdict[v] = "different"

\* The iteration of version v is over.
IterationOver(v) == v > version \/ pc \in {"done", "fatal"}

\* C1 as stated: once its iteration is over, a version has a full download and a
\* mosaic if and only if it is the first iteration or its corners differ from
\* the reference's.
C1_DownloadAndMosaicIffFirstOrDifferent ==
    \A v \in Versions :
        IterationOver(v) =>
            ((v \in downloads /\ v \in Mosaics) <=> FirstOrDifferent(v))

\* C1 as amended: a version gets a full download iff it is the first iteration or
\* its corners differ; it gets a mosaic iff that download returned with no tile
\* missing (and the mosaic has been assembled); a version whose corners are
\* identical gets requests for corner tiles only, no download and no mosaic.
C1_DownloadIffFirstOrDifferent ==
    \A v \in Versions :
        /\ v \in downloads <=> FirstOrDifferent(v)
        /\ v \in Mosaics <=> (v \in completed /\ ~(v = version /\ pc \in {"stitch", "emit"}))
        /\ v \in completed => v \in downloads
        /\ v \notin downloads => requested[v] \subseteq CornerSet
        /\ verdict[v] = "identical" =>
              /\ v # current_version
              /\ v \notin downloads
              /\ v \notin Mosaics
              /\ requested[v] = CornerSet

\* A version was skipped on a grid that has a tile that is no corner, and an
\* older version was found different, downloaded and made into a mosaic.
C1_Witness ==
    \E v, w \in Versions :
        /\ w < v
        /\ verdict[v] = "identical"
        /\ verdict[w] = "different"
        /\ w \in Mosaics
        /\ Flat \ CornerSet # {}

\* C2: whenever corners are being probed or compared, the reference grid is the
\* grid of the most recent (lowest) version whose full download returned with no
\* tile missing, every tile of it is DOWNLOADED, and every version between it and
\* the probed one was skipped as identical.
C2_ReferenceIsLastCompleteGrid ==
    pc \in {"probe_pool", "probe_compare"} =>
        /\ previous_grid # NoGrid
        /\ previous_grid \in completed
        /\ \A v \in completed : previous_grid <= v
        /\ previous_grid > version
        /\ \A t \in Flat : maptiles[previous_grid][t].status = DOWNLOADED
        /\ \A v \in Versions :
              (version < v /\ v < previous_grid) => verdict[v] = "identical"
        /\ Len(downloaded_images) > 0
        /\ downloaded_images[Len(downloaded_images)] = previous_grid

\* Corners are compared against a reference that is not the version just before:
\* a skipped version lies in between.
C2_Witness ==
    /\ pc = "probe_compare"
    /\ previous_grid > version + 1
    /\ verdict[version + 1] = "identical"

\* C3: once the first iteration's download has raised MissingTilesError, with all
\* or only some tiles missing, the run is in the handler or has failed with the
\* RuntimeError, and nothing was written: no still, no GIF, no mosaic kept.
C3_FirstIterationFailureIsFatal ==
    (version = current_version /\ error # NoError) =>
        /\ pc \in {"except", "fatal"}
        /\ error[3] = "download"
        /\ stills = <<>>
        /\ ~gif_written
        /\ gif = <<>>
        /\ downloaded_images = <<>>

\* The run has failed on the first iteration with only some tiles missing.
C3_Witness ==
    /\ pc = "fatal"
    /\ version = current_version
    /\ 0 < error[1]
    /\ error[1] < error[2]

\* The sequence s is strictly increasing.
StrictlyIncreasing(s) == \A i, j \in 1..Len(s) : i < j => s[i] < s[j]

\* C4: once a later iteration has raised MissingTilesError with missing = total
\* (in the corner probe or in the full download), the crawl is in the handler or
\* has ended normally; no older version is visited; and when it has ended, the
\* GIF (written unless the format is "jpegs") holds exactly the mosaics of the
\* versions collected before, each of them a completed earlier version.
C4_HistoryExhaustionEndsNormally ==
    (version # current_version /\ error # NoError /\ error[1] = error[2]) =>
        /\ pc \in {"except", "done"}
        /\ \A v \in Versions : v < version =>
              (requested[v] = {} /\ verdict[v] = "none" /\ v \notin downloads)
        /\ Mosaics = completed
        /\ \A v \in Mosaics : v > version
        /\ pc = "done" =>
              /\ output_format # "jpegs" => gif_written
              /\ gif_written => {gif[i] : i \in 1..Len(gif)} = Mosaics
              /\ gif_written => Len(gif) = Cardinality(Mosaics)

\* The crawl has ended normally after every corner of a later version failed.
C4_Witness ==
    /\ pc = "done"
    /\ version # current_version
    /\ error = <<4, 4, "corners">>
    /\ gif_written
    /\ Len(gif) >= 1

\* C5 as stated: a later iteration whose full download failed with
\* 0 < missing < total does not end the way history exhaustion does: the crawl
\* never reaches its normal end after such a failure.
C5_PartialFailureIsHardError ==
    (version # current_version /\ error[3] = "download"
        /\ 0 < error[1] /\ error[1] < error[2]) => pc # "done"

\* C5 as amended: a later iteration whose full download failed with
\* 0 < missing < total is handled exactly like history exhaustion: the crawl is
\* in the handler or has ended normally (never with the RuntimeError), and when
\* it has ended the GIF was written (unless the format is "jpegs") from the
\* mosaics collected before.
C5_PartialFailureEndsNormally ==
    (version # current_version /\ error[3] = "download"
        /\ 0 < error[1] /\ error[1] < error[2]) =>
        /\ pc \in {"except", "done"}
        /\ pc = "done" =>
              /\ output_format # "jpegs" => gif_written
              /\ gif_written => {gif[i] : i \in 1..Len(gif)} = Mosaics
              /\ Mosaics = completed

\* The crawl has ended normally after a later version's full download lost
\* some but not all of its tiles.
C5_Witness ==
    /\ pc = "done"
    /\ version # current_version
    /\ error[3] = "download"
    /\ 0 < error[1]
    /\ error[1] < error[2]
    /\ gif_written

\* C6: a crawl that has ended normally with at least one mosaic collected, and
\* with an animation requested, has written the animation, whatever ended it.
C6_CollectedMosaicsAreEmitted ==
    (pc = "done" /\ downloaded_images # <<>> /\ output_format \in {"gif", "both"}) =>
        gif_written

\* C7: a GIF that was written has as its frames the collected mosaics, oldest
\* first: strictly increasing versions (so no duplicates), at least one frame,
\* and the current version's mosaic last.
C7_GifFramesOldestToNewest ==
    gif_written =>
        /\ Len(gif) > 0
        /\ StrictlyIncreasing(gif)
        /\ gif[Len(gif)] = current_version
        /\ {gif[i] : i \in 1..Len(gif)} = completed
        /\ gif = downloaded_images

\* A GIF of more than one frame was written.
C7_Witness ==
    /\ gif_written
    /\ Len(gif) >= 2

\* C8: with "jpegs" one still per retained version and never a GIF; with "gif"
\* no still, and a GIF once the handler has finalized; with "both" both.
C8_FormatSelectsArtifacts ==
    /\ output_format = "jpegs" => (~gif_written /\ stills = downloaded_images)
    /\ output_format = "gif" => stills = <<>>
    /\ output_format = "both" =>
          {stills[i] : i \in 1..Len(stills)} = Mosaics
    /\ (output_format \in {"gif", "both"} /\ pc = "done" /\ error # NoError) =>
          gif_written

\* C9: no two running pool workers are processing the same tile.
C9_NoTileHasTwoWorkers ==
    \A i, j \in Running : i # j => tasks[i] # tasks[j]

\* C10: a tile that is DOWNLOADED is still DOWNLOADED after every step, as long
\* as its grid is kept.
C10_DownloadedIsStable ==
    [][\A g \in DOMAIN maptiles : \A t \in Flat :
          (maptiles[g][t].status = DOWNLOADED /\ g \in DOMAIN maptiles') =>
              maptiles'[g][t].status = DOWNLOADED]_vars

\* C11: no load attempt ends with its tile left in DOWNLOADING: a tile of the
\* grid being loaded is in DOWNLOADING only while a worker is in the request
\* for it (every response, an undecodable or misshapen body included, takes the
\* tile on to DOWNLOADED or ERROR).
C11_LoadEndsDownloadedOrError ==
    grid \in DOMAIN maptiles =>
        \A t \in Flat :
            maptiles[grid][t].status = DOWNLOADING =>
                \E i \in Running : tasks[i] = t /\ workers[i] = "request"

\* C12: load on a tile that is DOWNLOADED is a no-op. While a pool or its retry
\* is at work on a grid, a tile of it that is DOWNLOADED and has no attempt in
\* flight keeps its status and raster through every step, and no attempt is
\* started on it (so no request is sent for it); in particular the corners the
\* probe left DOWNLOADED are not fetched again by the grid's full download.
C12_LoadOnDownloadedIsNoOp ==
    [][\A t \in Flat :
          (/\ pc \in {"probe_pool", "download_pool"}
           /\ grid' = grid
           /\ maptiles[grid][t].status = DOWNLOADED
           /\ \A i \in Running : tasks[i] # t)
          => /\ maptiles'[grid][t] = maptiles[grid][t]
             /\ \A i \in DOMAIN workers' : tasks'[i] # t]_vars

\* In the full download of a later version of a grid with a tile that is no
\* corner, the tasks of the corners (all DOWNLOADED by the probe) have been taken
\* and are over, while every other tile is still PENDING and queued.
C12_Witness ==
    /\ pc = "download_pool"
    /\ version # current_version
    /\ malformed = 0
    /\ Running = {}
    /\ queue # {}
    /\ \A i \in 1..Len(tasks) : i \in queue <=> tasks[i] \notin CornerSet
    /\ \A t \in Flat :
          maptiles[grid][t].status = (IF t \in CornerSet THEN DOWNLOADED ELSE PENDING)

\* The number of tiles of the grid being loaded that are in ERROR.
ErrorCount == Cardinality({t \in Flat : maptiles[grid][t].status = ERROR})

\* C13: once download() has returned normally no tile of the grid is in ERROR,
\* and the MissingTilesError it raises carries missing = the number of tiles in
\* ERROR (at least one) and total = width * height, whether or not the retry ran.
C13_DownloadReturnsOnlyWithoutErrors ==
    /\ pc \in {"stitch", "emit"} => ErrorCount = 0
    /\ (pc \in {"except", "fatal"} /\ error[3] = "download") =>
          /\ error[1] = ErrorCount
          /\ error[1] > 0
          /\ error[2] = width * height

\* download() has raised with one tile of six missing: the pool left one tile
\* in ERROR, the retry ran and failed again.
C13_Witness ==
    /\ pc = "except"
    /\ error = <<1, 6, "download">>
    /\ ErrorCount = 1

\* C14: whenever main() is about to call stitch on a grid, every tile of the
\* grid is DOWNLOADED and holds an image: none is PENDING, DOWNLOADING or in
\* ERROR, none has image None.
C14_StitchOnlyOnLoadedGrid ==
    pc = "stitch" =>
        \A t \in Flat :
            /\ maptiles[grid][t].status = DOWNLOADED
            /\ maptiles[grid][t].image # "none"

\* stitch is about to be called on the grid of a later version that has more
\* than one tile, after a response without a well-formed raster was received.
C14_Witness ==
    /\ pc = "stitch"
    /\ version # current_version
    /\ width * height > 1
    /\ malformed > 0

\* C15: the loop variable only ever goes down, by one; an iteration is started
\* (a grid is built) for the version right below the one of the grid built
\* before, the first for the current version, so no version is visited twice;
\* and at every moment the tiles in DOWNLOADING, and the tiles workers are
\* running on, are tiles of the one grid built last.
C15_VersionsSequentialOneGridAtATime ==
    /\ [](\A g \in DOMAIN maptiles : \A t \in Flat :
             maptiles[g][t].status = DOWNLOADING => g = grid)
    /\ [](Running # {} => (grid \in DOMAIN maptiles /\ grid = version))
    /\ [][/\ version' \in {version, version - 1}
          /\ (pc = "loop" /\ pc' # "loop" /\ version >= 0) =>
                /\ grid' = version
                /\ IF grid = NoGrid THEN version = current_version
                                    ELSE grid = version + 1
          /\ grid' # grid => (pc = "loop" /\ pc' # "loop")]_vars

\* A third iteration is under way: a worker is in a request for a tile of the
\* grid two versions below the current one.
C15_Witness ==
    /\ version = current_version - 2
    /\ pc = "download_pool"
    /\ \E i \in Running : workers[i] = "request"
    /\ \E t \in Flat : maptiles[grid][t].status = DOWNLOADING

\* C16: once the current version has been looked up the crawl is at its loop
\* (the lookup never ends main()), starting from the number found for the view
\* direction if the page was fetched and the direction's pattern matched, and
\* else from the fallback: the --version option if given, otherwise 908 for
\* the downward view and 131 for the oblique ones.
C16_DiscoveryNeverFatal ==
    /\ pc \in {"discover", "compute_zoom", "loop"}
    /\ pc # "discover" =>
          LET found == IF direction = "downward" THEN discovery.downward
                       ELSE discovery.oblique
              fallback == IF args_version # <<>> THEN args_version[1]
                          ELSE IF direction = "downward" THEN 908 ELSE 131
          IN  /\ discovery.status \in {"request_failed", "fetched"}
              /\ current_version =
                    (IF discovery.status = "fetched" /\ found # <<>>
                     THEN found[1] ELSE fallback)
              /\ version = current_version

\* The page was fetched but the oblique pattern did not match (the downward
\* one did), no --version was given: the crawl starts from 131.
C16_Witness ==
    /\ pc = "compute_zoom"
    /\ direction = "westward"
    /\ args_version = <<>>
    /\ discovery.status = "fetched"
    /\ discovery.oblique = <<>>
    /\ discovery.downward # <<>>
    /\ current_version = DEFAULT_OBLIQUE_VERSION

\* resolution(z) = resolution(0) / 2^z, for the point compute_zoom_level was
\* called on.
Resolution(z) == meters_per_pixel_at_zoom_0 \div (2 ^ z)

\* compute_zoom_level has been called and is over.
ZoomComputed == pc \notin {"discover", "compute_zoom"}

\* C17: whenever some zoom in 0..23 has resolution(z) <= m, compute_zoom_level
\* returns the lowest such zoom: a z in 0..23 with resolution(z) <= m and
\* z = 0 or m < resolution(z - 1).
C17_ZoomIsLowestSatisfying ==
    (/\ ZoomComputed
     /\ \E z \in 0..23 : Resolution(z) <= max_meters_per_pixel)
    => /\ ~zoom.raised
       /\ zoom.zoom \in 0..23
       /\ Resolution(zoom.zoom) <= max_meters_per_pixel
       /\ zoom.zoom = 0 \/ max_meters_per_pixel < Resolution(zoom.zoom - 1)

\* C18: compute_zoom_level raises exactly when m < resolution(23), and a zoom
\* it returns is in 0..23.
C18_ZoomErrorIffFinestTooCoarse ==
    ZoomComputed =>
        /\ zoom.raised <=> max_meters_per_pixel < Resolution(23)
        /\ ~zoom.raised => zoom.zoom \in 0..23

\* The corner tiles of grids g and h are equal in every pixel and channel at
\* each of the four corner positions.
CornersEqual(g, h) ==
    \A k \in 1..Len(Corners) :
        /\ maptiles[g][Corners[k]].image # "none"
        /\ maptiles[g][Corners[k]].image = maptiles[h][Corners[k]].image

\* C19: corners_identical_to returns True if and only if the two grids' corner
\* tiles are equal in every pixel at each of the four corner positions (False
\* as soon as one differs), and comparing a grid whose corners are loaded with
\* itself gives True.
C19_IdenticalIffCornersEqual ==
    /\ [][(pc = "probe_compare" /\ verdict'[version] # verdict[version]) =>
             (verdict'[version] = "identical" <=> CornersEqual(grid, previous_grid))]_vars
    /\ [](\A g \in DOMAIN maptiles :
             (\A k \in 1..Len(Corners) : maptiles[g][Corners[k]].status = DOWNLOADED)
                => "identical" \in CompareResults(maptiles[g], maptiles[g]))

\* The same for two grids whose corners all hold well-formed rasters (this one
\* holds).
IdenticalIffEqualOnRasters ==
    [][(/\ pc = "probe_compare"
        /\ verdict'[version] # verdict[version]
        /\ \A k \in 1..Len(Corners) :
              /\ maptiles[grid][Corners[k]].image \in Rasters
              /\ maptiles[previous_grid][Corners[k]].image \in Rasters) =>
             (verdict'[version] = "identical" <=> CornersEqual(grid, previous_grid))]_vars

\* C20: at(-1, -1) is the tile at(W - 1, H - 1); corners() returns four tiles,
\* those at (x, y) in {0, W - 1} x {0, H - 1}, which are what the corner probe
\* submits; and when W = 1 or H = 1 two of the four are the same tile.
C20_CornersWrapAround ==
    /\ At(-1, -1) = At(width - 1, height - 1)
    /\ At(-1, -1) \in Flat
    /\ Len(Corners) = 4
    /\ {Corners[k] : k \in 1..Len(Corners)} =
          {<<x, y>> : x \in {0, width - 1}, y \in {0, height - 1}}
    /\ (width = 1 \/ height = 1) =>
          \E i, j \in 1..Len(Corners) : i # j /\ Corners[i] = Corners[j]
    /\ pc = "probe_pool" => tasks = Corners

\* The corners of a grid of height 1 and width above 1 are being probed: the
\* first two corners are one tile, the last two another.
C20_Witness ==
    /\ pc = "probe_pool"
    /\ height = 1
    /\ width > 1
    /\ tasks[1] = tasks[2]
    /\ tasks[3] = tasks[4]
    /\ tasks[1] # tasks[3]

\* The tiles of the grid being loaded that are in ERROR.
ErrorTiles == {t \in Flat : maptiles[grid][t].status = ERROR}

\* The sequence s lists no tile twice.
NoRepeats(s) == \A i, j \in 1..Len(s) : i # j => s[i] # s[j]

C21_WitnessNoRetry ==
    /\ pc = "download_join"
    /\ retried = <<>>
    /\ Cardinality(ErrorTiles) = 2

\* The tiles of the grid being loaded that are in DOWNLOADING.
DownloadingTiles == {t \in Flat : maptiles[grid][t].status = DOWNLOADING}

\* C22: in the pooled phase of download() at most max(W, H) tiles are in
\* DOWNLOADING, and every tile of the grid was submitted exactly once.
C22_AtMostMaxDownloading ==
    pc = "download_pool" =>
        /\ Cardinality(DownloadingTiles) <= Max(width, height)
        /\ Len(tasks) = width * height
        /\ NoRepeats(tasks)
        /\ {tasks[i] : i \in 1..Len(tasks)} = Flat

\* The same counting the tiles a worker is at work on instead of the tiles in
\* DOWNLOADING (this one holds).
AtMostMaxWorkersAtWork ==
    pc = "download_pool" =>
        /\ Cardinality(Running) <= Max(width, height)
        /\ Len(tasks) = width * height
        /\ NoRepeats(tasks)
        /\ {tasks[i] : i \in 1..Len(tasks)} = Flat

\* C23: both in download() and in the corner probe the failed tiles are counted
\* (and the retry decided) only once every submitted load has ended: no task is
\* queued, no worker is running, no submitted tile is still PENDING. Until then
\* each step of a worker changes the one tile it was given, whatever the order
\* the tasks are taken in, and download() gives every tile to one task only.
C23_CountAfterEveryLoadFinished ==
    /\ [][(pc \in {"download_pool", "probe_pool"} /\ pc' # pc) =>
             /\ Running = {}
             /\ queue = {}
             /\ \A i \in 1..Len(tasks) : maptiles[grid][tasks[i]].status # PENDING]_vars
    /\ [][(pc \in {"download_pool", "probe_pool"} /\ pc' = pc /\ maptiles' # maptiles) =>
             \E i \in Running :
                \A t \in Flat \ {tasks[i]} : maptiles'[grid][t] = maptiles[grid][t]]_vars
    /\ [](pc = "download_pool" => NoRepeats(tasks))

\* download() has counted the failed tiles of a grid of several tiles, some
\* failed and some loaded, with no worker left.
C23_Witness ==
    /\ pc = "download_join"
    /\ Running = {}
    /\ ErrorTiles # {}
    /\ \E t \in Flat : maptiles[grid][t].status = DOWNLOADED

\* C24: download() always goes on to return or raise. Once the pool has drained
\* and the retry is over it waits for the progress thread only, and that thread
\* stops: no tile of the grid is PENDING or DOWNLOADING then (nothing could
\* change such a tile any more, and the wait would never end).
C24_DownloadAlwaysTerminates ==
    pc = "download_join" =>
        \A t \in Flat : maptiles[grid][t].status \notin {PENDING, DOWNLOADING}

\* |a - b|
AbsDiff(a, b) == IF a >= b THEN a - b ELSE b - a

Min(a, b) == IF a <= b THEN a ELSE b

\* C25: whatever the order of the two corner tiles on each axis, from_georect
\* returns a grid of width |x_sw - x_ne| + 1 and height |y_sw - y_ne| + 1, both
\* at least 1, whose tile at index [i][j] (from 0) has x = min(x_sw, x_ne) + i and
\* y = min(y_sw, y_ne) + j, carries the grid's version, zoom and direction, and
\* is PENDING.
C25_GridCoversCornerTiles ==
    /\ pc \in {"from_georect", "built"}
    /\ pc = "built" =>
          LET sw == rect_tiles.bottomleft
              ne == rect_tiles.topright
          IN  /\ width = AbsDiff(sw[1], ne[1]) + 1
              /\ height = AbsDiff(sw[2], ne[2]) + 1
              /\ width >= 1
              /\ height >= 1
              /\ Len(built_grid) = width
              /\ \A i \in 0..(width - 1) :
                    /\ Len(built_grid[i + 1]) = height
                    /\ \A j \in 0..(height - 1) :
                          LET tile == built_grid[i + 1][j + 1]
                          IN  /\ tile.x = Min(sw[1], ne[1]) + i
                              /\ tile.y = Min(sw[2], ne[2]) + j
                              /\ tile.version = version
                              /\ tile.zoom = zoom.zoom
                              /\ tile.direction = direction
                              /\ tile.status = PENDING

\* A grid was built from corner tiles that were in the other order on both
\* axes, and is wider and higher than one tile.
C25_Witness ==
    /\ pc = "built"
    /\ rect_tiles.bottomleft[1] > rect_tiles.topright[1]
    /\ rect_tiles.bottomleft[2] < rect_tiles.topright[2]
    /\ Len(built_grid) = 3
    /\ Len(built_grid[1]) = 2

\* What is done with a retained version's image, in order.
MosaicPipeline ==
    <<"stitch", "crop">> \o (IF image_dimensions THEN <<"scale">> ELSE <<>>)
                         \o (IF output_format # "gif" THEN <<"save">> ELSE <<>>)
                         \o <<"append">>

\* C26: the image of every retained version was stitched, then cropped, then
\* scaled if and only if output dimensions were given, then saved if stills are
\* written, then appended, in that order and each once; an image that is not
\* in the collected list has not been appended, and no image is cropped twice.
C26_StitchCropScaleSaveAppend ==
    /\ \A v \in Versions :
          /\ (\E k \in 1..Len(downloaded_images) : downloaded_images[k] = v)
                <=> mosaics[v] = MosaicPipeline
          /\ mosaics[v] \in {<<>>, <<"stitch">>, MosaicPipeline}
          /\ Cardinality({k \in 1..Len(mosaics[v]) : mosaics[v][k] = "crop"}) <= 1
    /\ \A v \in Versions :
          ("save" \in {mosaics[v][k] : k \in 1..Len(mosaics[v])})
              <=> (\E k \in 1..Len(stills) : stills[k] = v)

\* Two versions were retained, scaled and saved.
C26_Witness ==
    /\ Len(downloaded_images) = 2
    /\ image_dimensions
    /\ output_format = "both"
    /\ \A k \in 1..2 : mosaics[downloaded_images[k]] =
                          <<"stitch", "crop", "scale", "save", "append">>

\* A version was retained without scaling and without a still.
C26_WitnessPlain ==
    /\ Len(downloaded_images) >= 1
    /\ mosaics[downloaded_images[1]] = <<"stitch", "crop", "append">>

\* The corner tiles of the grid being probed that are in ERROR.
ErrorCorners == {Corners[k] : k \in {k \in 1..4 : maptiles[grid][Corners[k]].status = ERROR}}

\* The probe's retry and final check, seen as one step out of the pooled phase
\* and one step out of the check.
ProbeRetryStep == pc = "probe_pool" /\ pc' # "probe_pool"

\* C27: the probe's retry sends a request for every corner tile the pool left
\* in ERROR, once each, however many they are; if a corner tile is in ERROR
\* after it, the probe raises MissingTilesError (the crawl is in its handler)
\* with no verdict of a comparison; and after that error the version is
\* neither skipped nor downloaded, and the crawl ends normally with the GIF
\* written, as after a failed full download.
C27_ProbeRetriesEveryErrorCornerOnce ==
    /\ [][ProbeRetryStep =>
             /\ {retried'[i] : i \in 1..Len(retried')} = ErrorCorners
             /\ NoRepeats(retried')
             /\ (\E k \in 1..4 : maptiles'[grid][Corners[k]].status = ERROR) =>
                   pc' = "probe_compare"]_vars
    /\ [][(pc = "probe_compare" /\ ErrorCorners # {}) =>
             /\ pc' = "except"
             /\ error' = <<Len(MissingTiles(grid, Corners)), 4, "corners">>
             /\ verdict' = verdict]_vars
    /\ [](error[3] = "corners" =>
             /\ pc \in {"except", "done"}
             /\ version # current_version
             /\ verdict[version] = "none"
             /\ version \notin downloads
             /\ pc = "done" => (gif_written /\ gif = downloaded_images))

\* What holds of the probe's retry: it is made with the pool drained, whatever
\* the number of corners in ERROR; it sends requests for corner tiles that were
\* in ERROR only, for all of them unless a load raised, and as many for one
\* tile as the corners list holds it; a corner in ERROR at the final check
\* ends the probe in MissingTilesError with no verdict, and after that error the
\* version is neither skipped nor downloaded and the crawl ends in the handler.
ProbeRetriesErrorCorners ==
    /\ [][ProbeRetryStep =>
             /\ PoolDrained
             /\ \A i \in 1..Len(retried') : retried'[i] \in ErrorCorners
             /\ Len(retried') <= Len(MissingTiles(grid, Corners))
             /\ pc' = "probe_compare" =>
                   {retried'[i] : i \in 1..Len(retried')} = ErrorCorners
             /\ \A t \in Flat \ ErrorCorners : maptiles'[grid][t] = maptiles[grid][t]]_vars
    /\ [][(pc = "probe_compare" /\ ErrorCorners # {}) =>
             /\ pc' = "except"
             /\ error' = <<Len(MissingTiles(grid, Corners)), 4, "corners">>
             /\ verdict' = verdict]_vars
    /\ [](error[3] = "corners" =>
             /\ pc \in {"except", "done"}
             /\ version # current_version
             /\ verdict[version] = "none"
             /\ version \notin downloads
             /\ pc = "done" => (gif_written /\ gif = downloaded_images))

====
